---- MODULE Spec2Model ----
(***************************************************************************)
(* Model of caddy-handle-scraper.  The server application (createApp):     *)
(* the services table, the handler files on disk, and the four HTTP        *)
(* endpoints with their middleware chain.  The discovery poller            *)
(* (ContainerClient): its interval timers and its scans, each scan a       *)
(* sequence of steps separated by the awaits of scanAndSend.               *)
(*                                                                         *)
(* Strings that the code transforms character by character (host IPs,      *)
(* subdomains, file names) are sequences of one-character strings.         *)
(* JSON values of a request body are tagged records:                       *)
(*   [t |-> "str", s |-> chars], [t |-> "int", v |-> n], [t |-> "null"],   *)
(*   [t |-> "arr", items |-> seq], [t |-> "obj", f |-> record].            *)
(* A handler runs synchronously to completion, so one request is one step; *)
(* the wall clock does not advance inside a handler.                       *)
(***************************************************************************)
EXTENDS Naturals, Integers, Sequences, FiniteSets, TLC

VARIABLES
    handshakeKey, \* createApp's handshakeKey argument
    dryRun,   \* createApp's dryRun argument
    paths,    \* the directories and the database file createApp made in /data
    db,       \* the services table: rows in rowid (insertion) order
    files,    \* /data/chs/shared/handlers: file name -> sequence of blocks
    clock,    \* the wall clock read by new Date()
    route,    \* method and path of the last request received
    traced,   \* whether whole requests are recorded in req
    req,      \* the last request received, when traced
    resp,     \* the response given to it
    wrote,    \* whether the last request ran an INSERT, UPDATE or DELETE
    config,     \* ContainerClient.config
    docker,     \* the running containers that carry the subdomain label
    intervalId, \* ContainerClient.intervalId: 0 when undefined, else a timer
    timers,     \* the interval timers created by setInterval
    listing,    \* scans awaiting docker.listContainers
    posting,    \* payloads of the scans awaiting fetch
    started,    \* calls of scanAndSend so far
    payload,    \* the payload built by the last scan that built one
    outcome,    \* what the last awaited call of a scan returned
    log,        \* the last console line of the client
    exited      \* process.exit was called

serverVars ==
    <<handshakeKey, dryRun, paths, db, files, clock, route, traced, req, resp,
      wrote>>

clientVars ==
    <<config, docker, intervalId, timers, listing, posting, started, payload,
      outcome, log, exited>>

vars == <<serverVars, clientVars>>

----------------------------------------------------------------------------
\* Bounds of the model

MaxClock == 1

MaxBatch == 2

MaxTime == 2

MaxStarts == 2

MaxContainers == 2

----------------------------------------------------------------------------
\* JSON values

JNull == [t |-> "null"]

JStr(s) == [t |-> "str", s |-> s]

JInt(n) == [t |-> "int", v |-> n]

\* the JSON string whose text is the decimal numeral of n
JNumStr(n) == [t |-> "numstr", v |-> n]

JArr(items) == [t |-> "arr", items |-> items]

JObj(f) == [t |-> "obj", f |-> f]

\* lodash hasIn(object, key): the key is present, whatever its value
hasIn(obj, key) == obj.t = "obj" /\ key \in DOMAIN obj.f

----------------------------------------------------------------------------
\* The configured key and the header values a request can carry

HandshakeKey == "test-key-123"

NoHeader == "<absent>"

HeaderValues == {HandshakeKey, "invalid-key", NoHeader}

\* What createApp can be handed as its key: a key, the empty string, or the
\* undefined of an unset variable, which is also what req.header() returns
\* for a header the request does not carry
KeyValues == {HandshakeKey, "", NoHeader}

\* Host IPs: any string is accepted; "1.1" and "1_1" differ only in '.'/'_'
Host11 == <<"1", ".", "1">>

Host1u1 == <<"1", "_", "1">>

Host22 == <<"2", ".", "2">>

Hosts == {Host11, Host1u1, Host22}

SubTestApp == <<"t", "-", "a">>

SubWeb == <<"w">>

Subdomains == {SubTestApp, SubWeb}

Ports == {1, 2}

----------------------------------------------------------------------------
\* The services table (CREATE TABLE services ...)

\* SELECT port FROM services WHERE subdomain = ?   (NULL = x is never true)
SelectPort(rows, subdomain) ==
    IF subdomain.t # "str" THEN {}
    ELSE {r \in {rows[i] : i \in 1..Len(rows)} : r.subdomain = subdomain.s}

\* INTEGER column affinity: the integer n and the numeric text "n" are both
\* stored as the integer n
StoredPort(port) == port.v

\* Slip: the row object itself is compared with the port, which never equals
PortDiffersAlways(existing, port) == TRUE

\* existingPort.port !== service.port  (strict inequality of JS values)
PortDiffers(existing, port) == ~(port.t = "int" /\ port.v = existing)

\* INSERT INTO services (...) VALUES (?, ?, ?, ?, ?) under the schema's
\* NOT NULL and UNIQUE / PRIMARY KEY (subdomain) constraints
InsertRow(rows, subdomain, host_ip, port, now) ==
    IF subdomain.t = "null" \/ host_ip.t = "null" \/ port.t = "null"
    THEN [err |-> TRUE, rows |-> rows]
    ELSE IF \E i \in 1..Len(rows) : rows[i].subdomain = subdomain.s
    THEN [err |-> TRUE, rows |-> rows]
    ELSE [err |-> FALSE,
          rows |-> Append(rows, [subdomain |-> subdomain.s,
                                 host_ip |-> host_ip.s,
                                 port |-> StoredPort(port),
                                 created_at |-> now,
                                 updated_at |-> now])]

\* Slip: the UPDATE sets created_at as well
UpdatePortAndCreated(rows, port, now, subdomain) ==
    IF port.t = "null"
    THEN [err |-> TRUE, rows |-> rows]
    ELSE [err |-> FALSE,
          rows |-> [i \in 1..Len(rows) |->
                      IF subdomain.t = "str" /\ rows[i].subdomain = subdomain.s
                      THEN [rows[i] EXCEPT !.port = StoredPort(port),
                                           !.created_at = now,
                                           !.updated_at = now]
                      ELSE rows[i]]]

\* UPDATE services SET port = ?, updated_at = ? WHERE subdomain = ?
UpdatePort(rows, port, now, subdomain) ==
    IF port.t = "null"
    THEN [err |-> TRUE, rows |-> rows]
    ELSE [err |-> FALSE,
          rows |-> [i \in 1..Len(rows) |->
                      IF subdomain.t = "str" /\ rows[i].subdomain = subdomain.s
                      THEN [rows[i] EXCEPT !.port = StoredPort(port),
                                           !.updated_at = now]
                      ELSE rows[i]]]

\* Slip: DELETE FROM services without the WHERE clause
DeleteRowAll(rows, subdomain) == <<>>

\* DELETE FROM services WHERE subdomain = ?
DeleteRow(rows, subdomain) ==
    SelectSeq(rows, LAMBDA r : r.subdomain # subdomain)

----------------------------------------------------------------------------
\* processRequest

\* Slip: rows looked up and keyed by (subdomain, host_ip) instead of subdomain
upsertOnePerHost(st, host_ip, service, now) ==
    IF st.err THEN st
    ELSE LET subdomain == service.f.subdomain
             port == service.f.port
             mine == {i \in 1..Len(st.rows) :
                        /\ JStr(st.rows[i].subdomain) = subdomain
                        /\ JStr(st.rows[i].host_ip) = host_ip}
         IN  IF subdomain = JNull \/ host_ip = JNull \/ port = JNull
             THEN [st EXCEPT !.err = TRUE]
             ELSE IF mine = {}
             THEN [st EXCEPT !.ins = @ + 1,
                             !.rows = Append(@, [subdomain |-> subdomain.s,
                                                 host_ip |-> host_ip.s,
                                                 port |-> StoredPort(port),
                                                 created_at |-> now,
                                                 updated_at |-> now])]
             ELSE [st EXCEPT !.upd = @ + 1,
                             !.rows = [i \in 1..Len(@) |->
                                         IF i \in mine
                                         THEN [@[i] EXCEPT
                                                 !.port = StoredPort(port),
                                                 !.updated_at = now]
                                         ELSE @[i]]]

\* One iteration of services.forEach inside upsertServices; st carries the
\* rows, whether a statement has thrown, and the statements run so far.
upsertOne(st, host_ip, service, now) ==
    IF st.err THEN st
    ELSE LET subdomain == service.f.subdomain
             port == service.f.port
             existingPort == SelectPort(st.rows, subdomain)
         IN  IF existingPort = {}
             THEN LET r == InsertRow(st.rows, subdomain, host_ip, port, now)
                  IN  [rows |-> r.rows, err |-> r.err,
                       ins |-> st.ins + 1, upd |-> st.upd]
             ELSE IF PortDiffers((CHOOSE e \in existingPort : TRUE).port, port)
             THEN LET r == UpdatePort(st.rows, port, now, subdomain)
                  IN  [rows |-> r.rows, err |-> r.err,
                       ins |-> st.ins, upd |-> st.upd + 1]
             ELSE st

RECURSIVE upsertFrom(_, _, _, _, _)
upsertFrom(st, host_ip, services, i, now) ==
    IF i > Len(services) THEN st
    ELSE upsertFrom(upsertOne(st, host_ip, services[i], now),
                    host_ip, services, i + 1, now)

\* Slip: the rows of the reporting host are replaced by the batch
upsertServicesReplacingHost(rows, host_ip, services, now) ==
    LET kept == SelectSeq(rows, LAMBDA row : JStr(row.host_ip) # host_ip)
        out == upsertFrom([rows |-> kept, err |-> FALSE, ins |-> 0, upd |-> 0],
                          host_ip, services, 1, now)
    IN  IF out.err THEN [out EXCEPT !.rows = rows] ELSE out

\* Slip: the statements run outside a transaction, nothing is rolled back
upsertServicesNoRollback(rows, host_ip, services, now) ==
    upsertFrom([rows |-> rows, err |-> FALSE, ins |-> 0, upd |-> 0],
               host_ip, services, 1, now)

\* db.transaction(fn)(services): COMMIT when fn returns, ROLLBACK and rethrow
\* when it throws
upsertServices(rows, host_ip, services, now) ==
    LET out == upsertFrom([rows |-> rows, err |-> FALSE, ins |-> 0, upd |-> 0],
                          host_ip, services, 1, now)
    IN  IF out.err THEN [out EXCEPT !.rows = rows] ELSE out

\* Slip: the dry-run branch is missing
processRequestAlwaysWrites(dry, rows, body, now) ==
    upsertServices(rows, body.f.host_ip, body.f.services.items, now)

processRequest(dry, rows, body, now) ==
    IF dry
    THEN [rows |-> rows, err |-> FALSE, ins |-> 0, upd |-> 0]
    ELSE upsertServices(rows, body.f.host_ip, body.f.services.items, now)

getAllServices(dry, rows) == IF dry THEN <<>> ELSE rows

----------------------------------------------------------------------------
\* writeHandlerFiles

Separators == {"-", "_", " ", "."}

UpperCase(c) ==
    CASE c = "a" -> "A"
      [] c = "t" -> "T"
      [] c = "w" -> "W"
      [] OTHER -> c

\* lodash camelCase on lower-case words joined by separators: separators are
\* dropped and every word but the first is capitalised
RECURSIVE camelFrom(_, _, _, _)
camelFrom(s, i, acc, boundary) ==
    IF i > Len(s) THEN acc
    ELSE IF s[i] \in Separators THEN camelFrom(s, i + 1, acc, TRUE)
    ELSE camelFrom(s, i + 1,
                   Append(acc, IF boundary /\ acc # <<>>
                               THEN UpperCase(s[i]) ELSE s[i]),
                   FALSE)

camelCase(s) == camelFrom(s, 1, <<>>, FALSE)

\* The rendered block of one row; the text is determined by these four parts
handlerTemplate(row) ==
    [matcher |-> camelCase(row.subdomain),
     subdomain |-> row.subdomain,
     host_ip |-> row.host_ip,
     port |-> row.port]

\* `chs_${hostIp.replace(/\./g, '_')}`
fileName(hostIp) ==
    <<"c", "h", "s", "_">> \o
    [i \in 1..Len(hostIp) |-> IF hostIp[i] = "." THEN "_" ELSE hostIp[i]]

\* Object.entries(servicesByHost): the host IPs in order of first appearance
RECURSIVE hostOrder(_, _, _)
hostOrder(services, i, acc) ==
    IF i > Len(services) THEN acc
    ELSE IF \E j \in 1..Len(acc) : acc[j] = services[i].host_ip
    THEN hostOrder(services, i + 1, acc)
    ELSE hostOrder(services, i + 1, Append(acc, services[i].host_ip))

\* Slip: the rows are not grouped by host, every file gets every block
formattedServicesOfAll(services, hostIp) ==
    [i \in 1..Len(services) |-> handlerTemplate(services[i])]

\* servicesByHost[hostIp].map(handlerTemplate)
formattedServices(services, hostIp) ==
    LET hostServices == SelectSeq(services, LAMBDA r : r.host_ip = hostIp)
    IN  [i \in 1..Len(hostServices) |-> handlerTemplate(hostServices[i])]

\* writeFileSync(path, data): creates the file or replaces its content
writeFileSync(fs, name, data) ==
    [n \in DOMAIN fs \cup {name} |-> IF n = name THEN data ELSE fs[n]]

RECURSIVE writeEach(_, _, _, _)
writeEach(fs, services, order, i) ==
    IF i > Len(order) THEN fs
    ELSE writeEach(writeFileSync(fs, fileName(order[i]),
                                 formattedServices(services, order[i])),
                   services, order, i + 1)

writeHandlerFiles(dry, rows, fs) ==
    IF dry THEN fs
    ELSE LET services == getAllServices(dry, rows)
         IN  writeEach(fs, services, hostOrder(services, 1, <<>>), 1)

----------------------------------------------------------------------------
\* Requests and responses

BodyAbsent == [t |-> "absent"]        \* no body: req.body stays undefined

BodyMalformed == [t |-> "malformed"]  \* a JSON body that does not parse

Reply(status, type, text, list) ==
    [status |-> status, type |-> type, text |-> text, list |-> list]

JsonMessage(msg) == Reply(200, "message", msg, <<>>)

\* Slip: res.sendStatus(status) in place of res.status(status).json({error})
JsonErrorStatusOnly(status, msg) == Reply(status, "html", "", <<>>)

JsonError(status, msg) == Reply(status, "error", msg, <<>>)

\* Express' default error handler: an HTML page, no JSON
HtmlError(status) == Reply(status, "html", "", <<>>)

NoOps == [ins |-> 0, upd |-> 0, del |-> 0]

\* A request that ends without touching the table or the files
Reject(reply, rows, fs) ==
    [resp |-> reply, db |-> rows, files |-> fs, ops |-> NoOps]

\* validateAuth: headerKey !== handshakeKey
authorized(key, r) == r.key = key

\* Slip: the port check placed before the subdomain check
itemErrorPortFirst(item) ==
    IF item.t # "obj" THEN "Services must be an array of objects"
    ELSE IF ~hasIn(item, "port") THEN "Each service must contain a port"
    ELSE IF ~hasIn(item, "subdomain")
    THEN "Each service must contain a subdomain"
    ELSE ""

\* validateBody, applied to one element of body.services
itemError(item) ==
    IF item.t # "obj" THEN "Services must be an array of objects"
    ELSE IF ~hasIn(item, "subdomain")
    THEN "Each service must contain a subdomain"
    ELSE IF ~hasIn(item, "port") THEN "Each service must contain a port"
    ELSE ""

RECURSIVE itemsError(_, _)
itemsError(items, i) ==
    IF i > Len(items) THEN ""
    ELSE IF itemError(items[i]) # "" THEN itemError(items[i])
    ELSE itemsError(items, i + 1)

\* validateBody: the error message sent with 400, or "" when next() is called
validateBody(body) ==
    IF body.t = "absent" THEN "Request body required"
    ELSE IF ~hasIn(body, "host_ip") THEN "host_ip required"
    ELSE IF ~hasIn(body, "services") \/ body.f.services.t # "arr"
    THEN "Services required and must be an array"
    ELSE itemsError(body.f.services.items, 1)

----------------------------------------------------------------------------
\* Route handlers; each returns the response and the state it leaves

healthCheck(key, r, dry, rows, fs) ==
    IF ~authorized(key, r) THEN Reject(JsonError(401, "Unauthorized"), rows, fs)
    ELSE Reject(JsonMessage("Health check received"), rows, fs)

getServices(key, r, dry, rows, fs) ==
    IF ~authorized(key, r) THEN Reject(JsonError(401, "Unauthorized"), rows, fs)
    ELSE Reject(Reply(200, "list", "", getAllServices(dry, rows)), rows, fs)

\* Slip: an exception of processRequest is swallowed, the files are written
\* and the request is acknowledged
servicesHandlerSwallowsError(r, dry, rows, fs, now) ==
    LET out == processRequest(dry, rows, r.body, now)
    IN  [resp |-> JsonMessage("Success"), db |-> out.rows,
         files |-> writeHandlerFiles(dry, out.rows, fs),
         ops |-> [ins |-> out.ins, upd |-> out.upd, del |-> 0]]

\* Slip: the files are rendered from the rows read before the upsert
servicesHandlerRendersStale(r, dry, rows, fs, now) ==
    LET out == processRequest(dry, rows, r.body, now)
        done == [ins |-> out.ins, upd |-> out.upd, del |-> 0]
    IN  IF out.err
        THEN [resp |-> HtmlError(500), db |-> out.rows, files |-> fs,
              ops |-> done]
        ELSE [resp |-> JsonMessage("Success"), db |-> out.rows,
              files |-> writeHandlerFiles(dry, rows, fs),
              ops |-> done]

\* The final handler of POST /services: processRequest, writeHandlerFiles,
\* then the acknowledgement; an exception of processRequest reaches Express'
\* error handler before any file is written
servicesHandler(r, dry, rows, fs, now) ==
    LET out == processRequest(dry, rows, r.body, now)
        done == [ins |-> out.ins, upd |-> out.upd, del |-> 0]
    IN  IF out.err
        THEN [resp |-> HtmlError(500), db |-> out.rows, files |-> fs,
              ops |-> done]
        ELSE [resp |-> JsonMessage("Success"), db |-> out.rows,
              files |-> writeHandlerFiles(dry, out.rows, fs),
              ops |-> done]

\* Slip: validateAuth answers 401 without returning, so next() still runs
postServicesAuthFallsThrough(key, r, dry, rows, fs, now) ==
    LET rest == IF validateBody(r.body) # ""
                THEN Reject(JsonError(400, validateBody(r.body)), rows, fs)
                ELSE servicesHandler(r, dry, rows, fs, now)
    IN  IF ~authorized(key, r)
        THEN [rest EXCEPT !.resp = JsonError(401, "Unauthorized")]
        ELSE rest

postServices(key, r, dry, rows, fs, now) ==
    IF ~authorized(key, r) THEN Reject(JsonError(401, "Unauthorized"), rows, fs)
    ELSE IF validateBody(r.body) # ""
    THEN Reject(JsonError(400, validateBody(r.body)), rows, fs)
    ELSE servicesHandler(r, dry, rows, fs, now)

deleteService(key, r, dry, rows, fs) ==
    IF ~authorized(key, r) THEN Reject(JsonError(401, "Unauthorized"), rows, fs)
    ELSE IF ~("subdomain" \in DOMAIN r.params) /\ Len(r.params.subdomain) = 0
    THEN Reject(JsonError(400, "subdomain required"), rows, fs)
    ELSE LET after == IF dry THEN rows ELSE DeleteRow(rows, r.params.subdomain)
         IN  [resp |-> JsonMessage("Success"), db |-> after,
              files |-> writeHandlerFiles(dry, after, fs),
              ops |-> [ins |-> 0, upd |-> 0, del |-> IF dry THEN 0 ELSE 1]]

\* The application: json() first, then the router
handle(key, r, dry, rows, fs, now) ==
    IF r.body.t = "malformed" THEN Reject(HtmlError(400), rows, fs)
    ELSE IF r.method = "GET" /\ r.path = "/health-check"
    THEN healthCheck(key, r, dry, rows, fs)
    ELSE IF r.method = "GET" /\ r.path = "/services"
    THEN getServices(key, r, dry, rows, fs)
    ELSE IF r.method = "POST" /\ r.path = "/services"
    THEN postServices(key, r, dry, rows, fs, now)
    ELSE IF r.method = "DELETE" /\ r.path = "/services/:subdomain"
            /\ Len(r.params.subdomain) > 0
    THEN deleteService(key, r, dry, rows, fs)
    ELSE Reject(HtmlError(404), rows, fs)

----------------------------------------------------------------------------
\* The requests the environment sends

Request(method, path, subdomain, key, body) ==
    [method |-> method, path |-> path, params |-> [subdomain |-> subdomain],
     key |-> key, body |-> body]

Service(s, p) == JObj([subdomain |-> JStr(s), port |-> p])

\* Well-formed entries, one entry whose port is the text "1", and one entry
\* that passes validateBody with a null port
Services ==
    {Service(SubTestApp, JInt(1)), Service(SubTestApp, JInt(2)),
     Service(SubWeb, JInt(1)), Service(SubWeb, JNumStr(1)),
     Service(SubWeb, JNull)}

Batches == UNION {[1..n -> Services] : n \in 0..MaxBatch}

ServicesBody(h, b) == JObj([host_ip |-> JStr(h), services |-> JArr(b)])

\* Bodies that validateBody accepts
ValidBodies == {ServicesBody(h, b) : h \in Hosts, b \in Batches}

WebOn11 == ServicesBody(Host11, <<Service(SubWeb, JInt(1))>>)

\* The requests of the store specification: the authenticated mutations,
\* every valid batch from every host and every deletion
PostRequests ==
    {Request("POST", "/services", <<>>, HandshakeKey, b) : b \in ValidBodies}

DeleteRequests ==
    {Request("DELETE", "/services/:subdomain", s, HandshakeKey, BodyAbsent) :
        s \in Subdomains}

\* The requests of the validation specification: every header value on every
\* route, with bodies that are absent, unparsable, or objects built from
\* present and missing keys
Items ==
    {JInt(5), JNull, JObj(<<>>), JObj([subdomain |-> JStr(SubWeb)]),
     JObj([port |-> JInt(1)]), Service(SubWeb, JInt(1))}

ItemLists == UNION {[1..n -> Items] : n \in 0..MaxBatch}

ServicesValues == {JArr(l) : l \in ItemLists} \cup {JStr(<<"w">>)}

ObjectBodies ==
    {JObj([host_ip |-> JStr(Host11), services |-> v]) : v \in ServicesValues}
    \cup {JObj([services |-> v]) : v \in ServicesValues}
    \cup {JObj([host_ip |-> JStr(Host11)]), JObj([host_ip |-> JNull]),
          JObj(<<>>)}

AnyBodies == {BodyAbsent, BodyMalformed} \cup ObjectBodies

FewBodies == {BodyAbsent, BodyMalformed, WebOn11}

PostAttempts ==
    {Request("POST", "/services", <<>>, k, b) :
        k \in HeaderValues, b \in AnyBodies}

DeleteAttempts ==
    {Request("DELETE", "/services/:subdomain", s, k, b) :
        s \in {SubWeb, <<>>}, k \in HeaderValues, b \in FewBodies}

GetAttempts(path) ==
    {Request("GET", path, <<>>, k, b) : k \in HeaderValues, b \in FewBodies}

ValidationRequests ==
    PostAttempts \cup DeleteAttempts
    \cup GetAttempts("/health-check") \cup GetAttempts("/services")

----------------------------------------------------------------------------
\* The discovery poller: configuration, containers and payload

SubdomainLabel == "app.subdomain"

SubdomainPortLabel == "app.subdomain.port"

PollIntervals == {1, 2}

\* setInterval(callback, delay): a delay below 1 is taken as 1
TimerDelay(delay) == IF delay < 1 THEN 1 ELSE delay

IPv4Any == <<"0", ".", "0", ".", "0", ".", "0">>

IPv6Any == <<":", ":">>

Digits == {"0", "1", "2", "3", "4", "5", "6", "7", "8", "9"}

DigitValue(c) ==
    CASE c = "0" -> 0 [] c = "1" -> 1 [] c = "2" -> 2 [] c = "3" -> 3
      [] c = "4" -> 4 [] c = "5" -> 5 [] c = "6" -> 6 [] c = "7" -> 7
      [] c = "8" -> 8 [] c = "9" -> 9

NaN == [t |-> "nan"]

RECURSIVE DecimalValue(_, _, _)
DecimalValue(s, i, acc) ==
    IF i > Len(s) THEN acc
    ELSE DecimalValue(s, i + 1, 10 * acc + DigitValue(s[i]))

\* Number(text) on a label value: the empty text is 0, a decimal numeral is
\* its value, any other text is NaN
Number(s) ==
    IF \A i \in 1..Len(s) : s[i] \in Digits
    THEN JInt(DecimalValue(s, 1, 0))
    ELSE NaN

\* The parts of an address between its dots
RECURSIVE SplitDots(_, _, _, _)
SplitDots(s, i, part, acc) ==
    IF i > Len(s) THEN Append(acc, part)
    ELSE IF s[i] = "." THEN SplitDots(s, i + 1, <<>>, Append(acc, part))
    ELSE SplitDots(s, i + 1, Append(part, s[i]), acc)

\* net.isIPv4(IP): four decimal octets without leading zeros; false for an
\* entry without IP
isIPv4(port) ==
    /\ "IP" \in DOMAIN port
    /\ LET parts == SplitDots(port.IP, 1, <<>>, <<>>)
       IN  /\ Len(parts) = 4
           /\ \A k \in 1..4 :
                 /\ Len(parts[k]) \in 1..3
                 /\ \A i \in 1..Len(parts[k]) : parts[k][i] \in Digits
                 /\ (Len(parts[k]) > 1 => parts[k][1] # "0")
                 /\ DecimalValue(parts[k], 1, 0) <= 255

\* Slip: the first bound entry of Ports is taken, whatever its address family
portOfFirstPublished(cfg, container) ==
    IF /\ cfg.subdomainPortLabel \in DOMAIN container.Labels
       /\ container.Labels[cfg.subdomainPortLabel] # <<>>
    THEN [err |-> FALSE,
          port |-> Number(container.Labels[cfg.subdomainPortLabel])]
    ELSE LET bound == SelectSeq(container.Ports,
                                LAMBDA p : "IP" \in DOMAIN p)
         IN  IF bound = <<>> THEN [err |-> TRUE, port |-> NaN]
             ELSE [err |-> FALSE, port |-> JInt(bound[1].PublicPort)]

\* The port expression of scanAndSend: the label when it is truthy, else the
\* PublicPort of the first IPv4 entry; reading [0].PublicPort of an empty
\* filter result throws a TypeError
portOf(cfg, container) ==
    IF /\ cfg.subdomainPortLabel \in DOMAIN container.Labels
       /\ container.Labels[cfg.subdomainPortLabel] # <<>>
    THEN [err |-> FALSE,
          port |-> Number(container.Labels[cfg.subdomainPortLabel])]
    ELSE LET bound == SelectSeq(container.Ports, isIPv4)
         IN  IF bound = <<>> THEN [err |-> TRUE, port |-> NaN]
             ELSE [err |-> FALSE, port |-> JInt(bound[1].PublicPort)]

\* containersWithLabel.map(...): the entries, or the exception of an entry
RECURSIVE mapContainers(_, _, _, _)
mapContainers(cfg, containers, i, acc) ==
    IF i > Len(containers) THEN [err |-> FALSE, services |-> acc]
    ELSE IF portOf(cfg, containers[i]).err
    THEN [err |-> TRUE, services |-> <<>>]
    ELSE mapContainers(cfg, containers, i + 1,
             Append(acc,
                    [port |-> portOf(cfg, containers[i]).port,
                     subdomain |-> containers[i].Labels[cfg.subdomainLabel]]))

\* const payload: ServicesRequest = {host_ip, services}
buildPayload(cfg, containers) ==
    LET mapped == mapContainers(cfg, containers, 1, <<>>)
    IN  [err |-> mapped.err,
         payload |-> [host_ip |-> cfg.hostIP, services |-> mapped.services]]

\* A container with both labels and a published port
Labelled ==
    [Labels |-> (SubdomainLabel :> SubTestApp @@ SubdomainPortLabel :> <<"8">>),
     Ports |-> <<[IP |-> IPv4Any, PublicPort |-> 2]>>]

\* A container without the port label, published on IPv6 and on IPv4
Published ==
    [Labels |-> (SubdomainLabel :> SubWeb),
     Ports |-> <<[IP |-> IPv6Any, PublicPort |-> 1],
                 [IP |-> IPv4Any, PublicPort |-> 2]>>]

\* A container whose port label has the empty value
EmptyLabelled ==
    [Labels |-> (SubdomainLabel :> SubWeb @@ SubdomainPortLabel :> <<>>),
     Ports |-> <<[IP |-> IPv4Any, PublicPort |-> 2]>>]

\* A container without the port label and without an IPv4 binding
Unpublished ==
    [Labels |-> (SubdomainLabel :> SubWeb),
     Ports |-> <<[PrivatePort |-> 1], [IP |-> IPv6Any, PublicPort |-> 1]>>]

Containers == {Labelled, Published, EmptyLabelled, Unpublished}

DockerListings == UNION {[1..n -> Containers] : n \in 0..MaxContainers}

\* What docker.listContainers gives: a rejection or the containers
DockerError == [err |-> TRUE, containers |-> <<>>]

Listed(containers) == [err |-> FALSE, containers |-> containers]

\* What fetch gives: a rejection or a response with its status
NetworkError == [err |-> TRUE, status |-> 0]

Response(status) == [err |-> FALSE, status |-> status]

FetchResults == {NetworkError, Response(200), Response(401), Response(500)}

\* Slip: a response is taken as ok whatever its status
responseOkAlways(response) == TRUE

\* response.ok: the status is in the range 200-299
responseOk(response) == response.status >= 200 /\ response.status <= 299

StartMessage(cfg) ==
    IF cfg.dryRun THEN "Starting container monitoring in DRY RUN MODE..."
    ELSE "Starting container monitoring in LIVE MODE..."

DryRunMessage == "DRY RUN: Would POST to: /services"

FailedMessage == "Failed to send payload:"

StopMessage == "Stopping container monitoring..."

NoPayload == [host_ip |-> <<>>, services |-> <<>>]

NoOutcome == [stage |-> "", err |-> FALSE, status |-> 0]

\* new ContainerClient(config, docker) before any call
Constructed ==
    /\ config \in [dryRun : BOOLEAN, pollInterval : PollIntervals,
                   hostIP : {Host11}, subdomainLabel : {SubdomainLabel},
                   subdomainPortLabel : {SubdomainPortLabel}]
    /\ docker \in DockerListings
    /\ intervalId = 0
    /\ timers = <<>>
    /\ listing = 0
    /\ posting = <<>>
    /\ started = 0
    /\ payload = NoPayload
    /\ outcome = NoOutcome
    /\ log = ""
    /\ exited = FALSE

\* No poller is part of the server specifications
NoClient ==
    /\ config = [dryRun |-> FALSE, pollInterval |-> 1, hostIP |-> Host11,
                 subdomainLabel |-> SubdomainLabel,
                 subdomainPortLabel |-> SubdomainPortLabel]
    /\ docker = <<>>
    /\ intervalId = 0
    /\ timers = <<>>
    /\ listing = 0
    /\ posting = <<>>
    /\ started = 0
    /\ payload = NoPayload
    /\ outcome = NoOutcome
    /\ log = ""
    /\ exited = FALSE

----------------------------------------------------------------------------
\* The state machine

RouteOf(r) == [method |-> r.method, path |-> r.path]

NoRoute == [method |-> "", path |-> ""]

NoRequest == Request("", "", <<>>, NoHeader, BodyAbsent)

NoReply == Reply(0, "", "", <<>>)

\* mkdirp.sync(...) twice and new Database(...), in live mode only
DataPaths ==
    {"/data/chs/shared/handlers", "/data/chs/private",
     "/data/chs/private/db.sqlite3"}

\* createApp(handshakeKey, dryRun) on an empty /data directory
CreatedWith(key) ==
    /\ handshakeKey = key
    /\ dryRun \in BOOLEAN
    /\ paths = IF dryRun THEN {} ELSE DataPaths
    /\ db = <<>>
    /\ files = <<>>
    /\ clock = 0
    /\ route = NoRoute
    /\ req = NoRequest
    /\ resp = NoReply
    /\ wrote = FALSE

\* The application as the server and the tests create it
Created == CreatedWith(HandshakeKey)

Init == Created /\ traced = FALSE /\ NoClient

InitValidation == Created /\ traced = TRUE /\ NoClient

\* One request served to completion by the application
Serve(r) ==
    \E out \in {handle(handshakeKey, r, dryRun, db, files, clock)} :
        /\ route' = RouteOf(r)
        /\ req' = IF traced THEN r ELSE NoRequest
        /\ resp' = out.resp
        /\ db' = out.db
        /\ files' = out.files
        /\ wrote' = (out.ops.ins + out.ops.upd + out.ops.del > 0)
        /\ UNCHANGED <<handshakeKey, dryRun, paths, clock, traced, clientVars>>

PostServices == \E r \in PostRequests : Serve(r)

DeleteService == \E r \in DeleteRequests : Serve(r)

\* Time passes between requests
Tick ==
    /\ clock < MaxClock
    /\ clock' = clock + 1
    /\ UNCHANGED <<handshakeKey, dryRun, paths, db, files, route, traced, req,
                   resp, wrote, clientVars>>

Next ==
    \/ PostServices
    \/ DeleteService
    \/ Tick

Spec == Init /\ [][Next]_vars

\* The same application, for as long as callers keep posting: every request
\* received is served, each handler running to completion before the next
SpecServing == Init /\ [][Next]_vars /\ WF_vars(PostServices)

\* The same application under arbitrary callers
GetHealthCheck == \E r \in GetAttempts("/health-check") : Serve(r)

GetAllServices == \E r \in GetAttempts("/services") : Serve(r)

TryPostServices == \E r \in PostAttempts : Serve(r)

TryDeleteService == \E r \in DeleteAttempts : Serve(r)

NextValidation ==
    \/ GetHealthCheck
    \/ GetAllServices
    \/ TryPostServices
    \/ TryDeleteService
    \/ Tick

SpecValidation == InitValidation /\ [][NextValidation]_vars

\* The application created with any key, under arbitrary callers
InitKeys == (\E key \in KeyValues : CreatedWith(key)) /\ traced = TRUE /\ NoClient

SpecKeys == InitKeys /\ [][NextValidation]_vars

----------------------------------------------------------------------------
\* The discovery poller: ContainerClient

\* scanAndSend() up to its first await: docker.listContainers is called
beginScan(c) == [c EXCEPT !.listing = @ + 1, !.started = @ + 1]

\* Slip: the timer is armed without the immediate scan
startMonitoringTimerOnly(c, cfg, now) ==
    [c EXCEPT !.log = StartMessage(cfg),
              !.timers = Append(@, [armed |-> TRUE, since |-> now,
                                    due |-> now + TimerDelay(cfg.pollInterval),
                                    fired |-> 0]),
              !.intervalId = Len(c.timers) + 1]

\* startMonitoring(): log, scan, then setInterval
startMonitoring(c, cfg, now) ==
    [beginScan(c) EXCEPT
        !.log = StartMessage(cfg),
        !.timers = Append(@, [armed |-> TRUE, since |-> now,
                              due |-> now + TimerDelay(cfg.pollInterval),
                              fired |-> 0]),
        !.intervalId = Len(c.timers) + 1]

\* Slip: the callback skips its scan while an earlier scan is in flight
timerCallbackUnlessBusy(c, cfg, t) ==
    [(IF c.listing + Len(c.posting) > 0 THEN c ELSE beginScan(c)) EXCEPT
        !.timers[t].fired = @ + 1,
        !.timers[t].due = @ + TimerDelay(cfg.pollInterval)]

\* The setInterval callback of timer t
timerCallback(c, cfg, t) ==
    [beginScan(c) EXCEPT
        !.timers[t].fired = @ + 1,
        !.timers[t].due = @ + TimerDelay(cfg.pollInterval)]

\* stop(): clearInterval(this.intervalId) when it is set
stop(c) ==
    IF c.intervalId # 0
    THEN [c EXCEPT !.timers[c.intervalId].armed = FALSE, !.log = StopMessage]
    ELSE c

\* The catch block of scanAndSend
catchError(c) == [c EXCEPT !.log = FailedMessage]

\* scanAndSend() from the return of listContainers to its next await or end
afterListing(c, cfg, result) ==
    LET got == [c EXCEPT !.listing = @ - 1,
                         !.outcome = [stage |-> "list", err |-> result.err,
                                      status |-> 0]]
    IN  IF result.err THEN catchError(got)
        ELSE LET built == buildPayload(cfg, result.containers)
             IN  IF built.err THEN catchError(got)
                 ELSE IF cfg.dryRun
                 THEN [got EXCEPT !.payload = built.payload,
                                  !.log = DryRunMessage]
                 ELSE [got EXCEPT !.payload = built.payload,
                                  !.posting = Append(@, built.payload)]

\* scanAndSend() from the return of fetch to its end
afterFetch(c, i, result) ==
    LET got == [c EXCEPT !.posting = SubSeq(@, 1, i - 1)
                                       \o SubSeq(@, i + 1, Len(@)),
                         !.outcome = [stage |-> "fetch", err |-> result.err,
                                      status |-> result.status]]
    IN  IF ~result.err /\ responseOk(result) THEN got ELSE catchError(got)

\* The fields of the client that its methods and callbacks change
Client ==
    [intervalId |-> intervalId, timers |-> timers, listing |-> listing,
     posting |-> posting, started |-> started, payload |-> payload,
     outcome |-> outcome, log |-> log]

Becomes(c) ==
    /\ intervalId' = c.intervalId
    /\ timers' = c.timers
    /\ listing' = c.listing
    /\ posting' = c.posting
    /\ started' = c.started
    /\ payload' = c.payload
    /\ outcome' = c.outcome
    /\ log' = c.log

StartMonitoring ==
    /\ ~exited
    /\ Len(timers) < MaxStarts
    /\ Becomes(startMonitoring(Client, config, clock))
    /\ UNCHANGED <<serverVars, config, docker, exited>>

\* An armed timer whose delay has elapsed runs its callback
TimerFires ==
    \E t \in 1..Len(timers) :
        /\ ~exited
        /\ timers[t].armed
        /\ timers[t].due = clock
        /\ Becomes(timerCallback(Client, config, t))
        /\ UNCHANGED <<serverVars, config, docker, exited>>

\* A millisecond passes once every callback that is due has run
Elapse ==
    /\ ~exited
    /\ clock < MaxTime
    /\ \A t \in 1..Len(timers) : timers[t].armed => timers[t].due > clock
    /\ clock' = clock + 1
    /\ UNCHANGED <<handshakeKey, dryRun, paths, db, files, route, traced, req,
                   resp, wrote, clientVars>>

ListReturns ==
    \E result \in {DockerError, Listed(docker)} :
        /\ ~exited
        /\ listing > 0
        /\ Becomes(afterListing(Client, config, result))
        /\ UNCHANGED <<serverVars, config, docker, exited>>

FetchReturns ==
    \E i \in 1..Len(posting), result \in FetchResults :
        /\ ~exited
        /\ Becomes(afterFetch(Client, i, result))
        /\ UNCHANGED <<serverVars, config, docker, exited>>

Stop ==
    /\ ~exited
    /\ Becomes(stop(Client))
    /\ UNCHANGED <<serverVars, config, docker, exited>>

\* cleanup of setupSignalHandlers: client.stop(); process.exit(0)
Signal ==
    /\ ~exited
    /\ Becomes(stop(Client))
    /\ exited' = TRUE
    /\ UNCHANGED <<serverVars, config, docker>>

InitClient == Created /\ ~dryRun /\ traced = FALSE /\ Constructed

NextClient ==
    \/ StartMonitoring
    \/ TimerFires
    \/ Elapse
    \/ ListReturns
    \/ FetchReturns
    \/ Stop
    \/ Signal

SpecClient == InitClient /\ [][NextClient]_vars

----------------------------------------------------------------------------
\* The discovery poller as the script client/index.ts: main on an interval

StartIntervalMessage == "Starting container monitoring..."

\* startInterval(): log, main(), then setInterval(main, ...)
startInterval(c, cfg, now) ==
    [beginScan(c) EXCEPT
        !.log = StartIntervalMessage,
        !.timers = Append(@, [armed |-> TRUE, since |-> now,
                              due |-> now + TimerDelay(cfg.pollInterval),
                              fired |-> 0]),
        !.intervalId = Len(c.timers) + 1]

\* main() from the return of listContainers to its fetch: the listing and
\* the payload are outside the try block, so an error there rejects the
\* promise of main, which nothing handles
mainAfterListing(c, cfg, result) ==
    LET got == [c EXCEPT !.listing = @ - 1,
                         !.outcome = [stage |-> "list", err |-> result.err,
                                      status |-> 0]]
    IN  IF result.err THEN [client |-> got, rejected |-> TRUE]
        ELSE LET built == buildPayload(cfg, result.containers)
             IN  IF built.err THEN [client |-> got, rejected |-> TRUE]
                 ELSE [client |-> [got EXCEPT
                                      !.payload = built.payload,
                                      !.posting = Append(@, built.payload)],
                       rejected |-> FALSE]

\* The script calls startInterval() once when it is loaded
StartInterval ==
    /\ ~exited
    /\ Len(timers) = 0
    /\ Becomes(startInterval(Client, config, clock))
    /\ UNCHANGED <<serverVars, config, docker, exited>>

\* An unhandled rejection ends the process (node:lts)
MainListReturns ==
    \E result \in {DockerError, Listed(docker)} :
        /\ ~exited
        /\ listing > 0
        /\ \E out \in {mainAfterListing(Client, config, result)} :
              /\ Becomes(out.client)
              /\ exited' = out.rejected
        /\ UNCHANGED <<serverVars, config, docker>>

InitMain == InitClient /\ ~config.dryRun

NextMain ==
    \/ StartInterval
    \/ TimerFires
    \/ Elapse
    \/ MainListReturns
    \/ FetchReturns
    \/ Signal

SpecMain == InitMain /\ [][NextMain]_vars

----------------------------------------------------------------------------
\* Vocabulary of the properties

\* What the application answers to r in the current state, and the state it
\* leaves
Outcome(r) == handle(handshakeKey, r, dryRun, db, files, clock)

IsPost(r) == r.method = "POST" /\ r.path = "/services"

\* An authenticated POST /services whose body passes validateBody
Accepted(r) ==
    /\ IsPost(r)
    /\ r.body.t = "obj"
    /\ authorized(handshakeKey, r)
    /\ validateBody(r.body) = ""

Entries(r) == r.body.f.services.items

RowsOf(rows) == {rows[i] : i \in 1..Len(rows)}

\* The port value p of a request is the port n of a row
SamePort(p, n) == p.t \in {"int", "numstr"} /\ p.v = n

Success == JsonMessage("Success")

Unauthorized == JsonError(401, "Unauthorized")

----------------------------------------------------------------------------
\* C1: in live mode, after an authenticated POST /services whose body passes
\* validateBody, the table holds a row for every subdomain of the batch, and
\* the port of that row is a port the batch submitted for that subdomain.
C1_SubmittedRowsStored ==
    ~dryRun =>
        \A r \in PostRequests :
            Accepted(r) =>
                \A i \in 1..Len(Entries(r)), out \in {Outcome(r)} :
                    \E row \in RowsOf(out.db) :
                        /\ Entries(r)[i].f.subdomain = JStr(row.subdomain)
                        /\ \E j \in 1..Len(Entries(r)) :
                              /\ Entries(r)[j].f.subdomain
                                    = Entries(r)[i].f.subdomain
                              /\ SamePort(Entries(r)[j].f.port, row.port)

----------------------------------------------------------------------------
\* The same request served a second time, at a later instant, in the state
\* that its first serving (with outcome first) left
Again(r, first) ==
    handle(handshakeKey, r, dryRun, first.db, first.files, clock + 1)

NoWrites(out) == out.ops.ins = 0 /\ out.ops.upd = 0

SettledBatch(r) ==
    /\ \A i \in 1..Len(Entries(r)) : Entries(r)[i].f.port.t = "int"
    /\ \A i, j \in 1..Len(Entries(r)) :
          Entries(r)[i].f.subdomain = Entries(r)[j].f.subdomain
              => Entries(r)[i].f.port = Entries(r)[j].f.port

----------------------------------------------------------------------------
\* C3: in live mode, after a successful POST /services or DELETE, the handler
\* file of the host_ip of every row contains a block with that row's
\* subdomain and port.
C3_EveryRowRendered ==
    (/\ ~dryRun
     /\ route.method \in {"POST", "DELETE"}
     /\ resp = Success)
    => \A row \in RowsOf(db) :
          /\ fileName(row.host_ip) \in DOMAIN files
          /\ \E k \in 1..Len(files[fileName(row.host_ip)]) :
                /\ files[fileName(row.host_ip)][k].subdomain = row.subdomain
                /\ files[fileName(row.host_ip)][k].port = row.port

----------------------------------------------------------------------------
\* A request addressed to one of the four endpoints
OnEndpoint(r) ==
    \/ r.method = "GET" /\ r.path \in {"/health-check", "/services"}
    \/ IsPost(r)
    \/ /\ r.method = "DELETE" /\ r.path = "/services/:subdomain"
       /\ r.params.subdomain # <<>>

\* C4: on every endpoint, a request whose X-Handshake-Key header is missing
\* or differs from the configured key is answered 401 {error:'Unauthorized'}
\* whatever its body is (absent, malformed, invalid or valid), and nothing
\* is written for it.
C4_UnauthorizedWhateverBody ==
    (traced /\ OnEndpoint(req) /\ req.key # handshakeKey) =>
        resp = Unauthorized /\ ~wrote

----------------------------------------------------------------------------
\* An authenticated POST /services whose body was parsed
Validated(r) ==
    IsPost(r) /\ authorized(handshakeKey, r) /\ r.body.t # "malformed"

HasServicesArray(body) ==
    /\ body.t = "obj"
    /\ "host_ip" \in DOMAIN body.f
    /\ "services" \in DOMAIN body.f
    /\ body.f.services.t = "arr"

NotObject(item) == item.t # "obj"

LacksKey(item, key) == item.t = "obj" /\ key \notin DOMAIN item.f

\* The message of the first failing check when the six checks are taken in
\* the order listed, each element check ranging over the whole array
ListedOrderMessage(body) ==
    IF body.t = "absent" THEN "Request body required"
    ELSE IF "host_ip" \notin DOMAIN body.f THEN "host_ip required"
    ELSE IF ~HasServicesArray(body)
    THEN "Services required and must be an array"
    ELSE LET items == body.f.services.items
         IN  IF \E i \in 1..Len(items) : NotObject(items[i])
             THEN "Services must be an array of objects"
             ELSE IF \E i \in 1..Len(items) : LacksKey(items[i], "subdomain")
             THEN "Each service must contain a subdomain"
             ELSE IF \E i \in 1..Len(items) : LacksKey(items[i], "port")
             THEN "Each service must contain a port"
             ELSE ""

\* C5 as stated: an authenticated POST /services with an invalid body is
\* rejected with 400 and the message of the first failing check in the order
\* body, host_ip, services, every element an object, every element with a
\* subdomain, every element with a port.
C5_FirstFailingListedCheck ==
    (traced /\ Validated(req) /\ ListedOrderMessage(req.body) # "") =>
        resp = JsonError(400, ListedOrderMessage(req.body))

\* Element i of the array fails one of the three element checks
FailsAt(items, i) ==
    \/ NotObject(items[i])
    \/ LacksKey(items[i], "subdomain")
    \/ LacksKey(items[i], "port")

\* The message for the first element that fails, by that element's first
\* failing check
ElementOrderMessage(body) ==
    IF body.t = "absent" THEN "Request body required"
    ELSE IF "host_ip" \notin DOMAIN body.f THEN "host_ip required"
    ELSE IF ~HasServicesArray(body)
    THEN "Services required and must be an array"
    ELSE LET items == body.f.services.items
             failing == {i \in 1..Len(items) : FailsAt(items, i)}
         IN  IF failing = {} THEN ""
             ELSE LET k == CHOOSE i \in failing : \A j \in failing : i <= j
                  IN  IF NotObject(items[k])
                      THEN "Services must be an array of objects"
                      ELSE IF LacksKey(items[k], "subdomain")
                      THEN "Each service must contain a subdomain"
                      ELSE "Each service must contain a port"

\* C5 amended: an authenticated POST /services with an invalid body is
\* rejected with 400; the body, host_ip and services checks come first in
\* that order, and the element checks are made element by element in array
\* order, so the message is that of the first failing element's first failing
\* check (object, then subdomain, then port).  A body with no failing check
\* is not answered 400.
C5_FirstFailingElementCheck ==
    (traced /\ Validated(req)) =>
        IF ElementOrderMessage(req.body) # ""
        THEN resp = JsonError(400, ElementOrderMessage(req.body))
        ELSE resp.status # 400

\* A POST has just been turned away for an element that lacks a port while a
\* later element of its array is not an object
C5_Witness ==
    /\ traced /\ Validated(req)
    /\ resp = JsonError(400, "Each service must contain a port")
    /\ ListedOrderMessage(req.body) = "Services must be an array of objects"

----------------------------------------------------------------------------
\* C6: a request rejected with 401 or 400 attempts no mutation: the rows and
\* every handler file are the same after it as before it, and it ran no
\* INSERT, UPDATE or DELETE.
C6_RejectedChangesNothing ==
    [][resp'.status \in {400, 401}
         => (db' = db /\ files' = files /\ ~wrote')]_vars

\* A request has just been rejected while rows and files existed
C6_Witness ==
    /\ traced
    /\ req # NoRequest
    /\ resp.status \in {400, 401}
    /\ db # <<>>
    /\ DOMAIN files # {}

----------------------------------------------------------------------------
HostOf(r) == r.body.f.host_ip.s

\* The port of the last entry of the batch that names subdomain sub
LastPort(r, sub) ==
    LET last == CHOOSE j \in 1..Len(Entries(r)) :
                    /\ Entries(r)[j].f.subdomain = sub
                    /\ \A k \in (j + 1)..Len(Entries(r)) :
                          Entries(r)[k].f.subdomain # sub
    IN  Entries(r)[last].f.port

\* Every entry of the batch is in force in rows
AllApplied(r, rows) ==
    \A i \in 1..Len(Entries(r)) :
        \E row \in RowsOf(rows) :
            /\ Entries(r)[i].f.subdomain = JStr(row.subdomain)
            /\ SamePort(LastPort(r, Entries(r)[i].f.subdomain), row.port)

\* The store raises an error on an entry with a null port (port NOT NULL)
Raises(r) == \E i \in 1..Len(Entries(r)) : Entries(r)[i].f.port = JNull

\* C7: the upsert of one batch is atomic: if the store raises an error on a
\* service of the batch, the rows are the rows before the call; otherwise
\* every entry of the batch is applied.
C7_BatchAtomic ==
    ~dryRun =>
        \A r \in PostRequests :
            \A out \in {Outcome(r)} :
                IF Raises(r)
                THEN out.resp = HtmlError(500) /\ out.db = db
                ELSE out.resp = Success /\ AllApplied(r, out.db)

\* A batch has just failed in a table that holds rows, and in this state a
\* batch whose first entry would insert a new row fails on its second entry
C7_Witness ==
    /\ ~dryRun
    /\ route = [method |-> "POST", path |-> "/services"]
    /\ resp = HtmlError(500)
    /\ db # <<>>
    /\ \E r \in PostRequests :
          /\ Len(Entries(r)) = 2
          /\ Entries(r)[1].f.port # JNull
          /\ Entries(r)[2].f.port = JNull
          /\ \A row \in RowsOf(db) :
                JStr(row.subdomain) # Entries(r)[1].f.subdomain

----------------------------------------------------------------------------
\* C8: when a subdomain has a row with host_ip A and a POST /services with
\* host_ip B # A submits that subdomain, the row has host_ip B afterwards and
\* the request is answered without a conflict error.
C8_LaterHostTakesOver ==
    ~dryRun =>
        \A r \in PostRequests :
            ~Raises(r) =>
                \A out \in {Outcome(r)}, i \in 1..Len(Entries(r)) :
                    \A row \in RowsOf(db) :
                        (/\ JStr(row.subdomain) = Entries(r)[i].f.subdomain
                         /\ row.host_ip # HostOf(r))
                        => /\ out.resp = Success
                           /\ \E now \in RowsOf(out.db) :
                                 /\ now.subdomain = row.subdomain
                                 /\ now.host_ip = HostOf(r)

----------------------------------------------------------------------------
\* C9: in every reachable state of the store there is at most one row per
\* subdomain.
C9_OneRowPerSubdomain ==
    \A i, j \in 1..Len(db) : db[i].subdomain = db[j].subdomain => i = j

\* Rows of two hosts are stored, and a POST has just changed an existing row
C9_Witness ==
    /\ Len(db) = 2
    /\ db[1].host_ip # db[2].host_ip
    /\ route = [method |-> "POST", path |-> "/services"]
    /\ resp = Success
    /\ \E i \in 1..Len(db) : db[i].updated_at > db[i].created_at

----------------------------------------------------------------------------
\* C10: an authenticated DELETE /services/:subdomain in live mode returns
\* 200 {message:'Success'} whether or not the row exists; afterwards no row
\* has that subdomain and the other rows are unchanged, so deleting an absent
\* subdomain changes nothing and deleting twice equals deleting once.
C10_DeleteRemovesOnlyThatRow ==
    ~dryRun =>
        \A r \in DeleteRequests :
            \A out \in {Outcome(r)} :
                /\ out.resp = Success
                /\ RowsOf(out.db)
                     = {row \in RowsOf(db) :
                           row.subdomain # r.params.subdomain}
                /\ \A i, j \in 1..Len(out.db) :
                      i < j => \E k, l \in 1..Len(db) :
                                  k < l /\ db[k] = out.db[i] /\ db[l] = out.db[j]
                /\ (\A row \in RowsOf(db) :
                        row.subdomain # r.params.subdomain) => out.db = db
                /\ \A again \in {handle(handshakeKey, r, dryRun,
                                         out.db, out.files, clock + 1)} :
                      again.resp = Success /\ again.db = out.db

\* A DELETE has just been answered 200 and left another row in place
C10_Witness ==
    /\ ~dryRun
    /\ route = [method |-> "DELETE", path |-> "/services/:subdomain"]
    /\ resp = Success
    /\ Len(db) = 1

----------------------------------------------------------------------------
\* An authenticated DELETE whose subdomain segment is empty: DELETE /services/
EmptyDelete(r) ==
    /\ r.method = "DELETE"
    /\ r.path = "/services/:subdomain"
    /\ r.params.subdomain = <<>>
    /\ r.key = handshakeKey
    /\ r.body.t # "malformed"

\* C11: an authenticated DELETE /services/:subdomain whose subdomain is empty
\* is rejected with 400 {error:'subdomain required'} and deletes no row.
C11_EmptySubdomainRejected ==
    (traced /\ EmptyDelete(req)) =>
        resp = JsonError(400, "subdomain required") /\ ~wrote

----------------------------------------------------------------------------
ListRequest == Request("GET", "/services", <<>>, HandshakeKey, BodyAbsent)

EmptyList == Reply(200, "list", "", <<>>)

\* C12: in dry-run mode, in every reachable state, createApp has made no
\* directory and no database file, the table and the handler directory are
\* empty, every authenticated POST /services and DELETE is acknowledged
\* without a statement run or a file written, and GET /services returns the
\* empty list.
C12_DryRunTouchesNothing ==
    dryRun =>
        /\ paths = {}
        /\ db = <<>>
        /\ files = <<>>
        /\ ~wrote
        /\ \A r \in PostRequests \cup DeleteRequests :
              \A out \in {Outcome(r)} :
                  /\ out.resp = Success
                  /\ out.db = db
                  /\ out.files = files
                  /\ out.ops = NoOps
        /\ Outcome(ListRequest).resp = EmptyList

\* A dry-run application has acknowledged a POST /services some time after
\* its creation
C12_Witness ==
    /\ dryRun
    /\ route = [method |-> "POST", path |-> "/services"]
    /\ resp = Success
    /\ clock > 0

----------------------------------------------------------------------------
\* What a dry-run application created with the same key answers to r; its
\* table and handler directory are empty in every state it reaches
DryOutcome(r) == handle(handshakeKey, r, TRUE, <<>>, <<>>, clock)

LiveOutcome(r) == handle(handshakeKey, r, FALSE, db, files, clock)

\* An authenticated DELETE that reaches its route
AcceptedDelete(r) ==
    /\ r.method = "DELETE"
    /\ r.path = "/services/:subdomain"
    /\ r.params.subdomain # <<>>
    /\ r.body.t # "malformed"
    /\ authorized(handshakeKey, r)

\* C13: for every request, the live application and a dry-run application
\* with the same key give the same status and body whenever either rejects
\* the request with 401 or 400, and both give the 200 acknowledgement to an
\* accepted POST /services or DELETE.
C13_DryAnswersAsLive ==
    ~dryRun =>
        \A r \in ValidationRequests \cup PostRequests \cup DeleteRequests :
            \A live \in {LiveOutcome(r)}, dry \in {DryOutcome(r)} :
                /\ (live.resp.status \in {400, 401}
                      \/ dry.resp.status \in {400, 401})
                   => live.resp = dry.resp
                /\ (Accepted(r) \/ AcceptedDelete(r))
                   => (live.resp = Success /\ dry.resp = Success)

----------------------------------------------------------------------------
\* C14 as stated: every response with an error status carries a JSON object
\* with a non-empty string field error, for authentication failures,
\* validation failures and failures raised by the store.
C14_FailuresAreJsonErrors ==
    resp.status >= 400 => (resp.type = "error" /\ resp.text # "")

AllRequests == ValidationRequests \cup PostRequests \cup DeleteRequests

\* C14 amended: a failure is a response with an error status; the 401 of
\* validateAuth and the 400 of validateBody and of no other cause carry a JSON
\* object with a non-empty string field error, while a failure raised by the
\* store (500), a body that does not parse (400) and an unmatched route (404)
\* are answered by the default error handler without a JSON error object.
C14_StructuredUnlessUnhandled ==
    \A r \in AllRequests :
        \A out \in {Outcome(r)} :
            out.resp.status # 200 =>
                IF r.body.t = "malformed"
                THEN out.resp = HtmlError(400)
                ELSE IF ~OnEndpoint(r)
                THEN out.resp = HtmlError(404)
                ELSE IF ~authorized(handshakeKey, r)
                THEN out.resp.status = 401 /\ out.resp.type = "error"
                     /\ out.resp.text # ""
                ELSE IF IsPost(r) /\ validateBody(r.body) # ""
                THEN out.resp.status = 400 /\ out.resp.type = "error"
                     /\ out.resp.text # ""
                ELSE /\ IsPost(r) /\ ~dryRun /\ Raises(r)
                     /\ out.resp = HtmlError(500)

\* A batch has just failed in the store and was answered by the default
\* error handler
C14_Witness ==
    /\ ~dryRun
    /\ route = [method |-> "POST", path |-> "/services"]
    /\ resp = HtmlError(500)
    /\ Len(db) = 2

----------------------------------------------------------------------------
\* The rows of host IP h, in table order
RowsOfHost(rows, h) == SelectSeq(rows, LAMBDA row : row.host_ip = h)

\* The block the template renders for a row
BlockOf(row) ==
    [matcher |-> camelCase(row.subdomain), subdomain |-> row.subdomain,
     host_ip |-> row.host_ip, port |-> row.port]

\* C15: in live mode, after writeHandlerFiles (run by every successful POST
\* /services and DELETE), for every host IP h that has a row the file chs_h
\* with '.' replaced by '_' holds exactly one block per row of h, with that
\* row's camelCased matcher, subdomain, host_ip and port, and nothing else.
C15_FileHoldsExactlyHostRows ==
    (/\ ~dryRun
     /\ route.method \in {"POST", "DELETE"}
     /\ resp = Success)
    => \A row \in RowsOf(db) :
          /\ fileName(row.host_ip) \in DOMAIN files
          /\ files[fileName(row.host_ip)]
               = [i \in 1..Len(RowsOfHost(db, row.host_ip)) |->
                    BlockOf(RowsOfHost(db, row.host_ip)[i])]

----------------------------------------------------------------------------
HasRows(rows, h) == \E row \in RowsOf(rows) : row.host_ip = h

\* C16: a regeneration never removes or rewrites the file of a host IP that
\* has no rows: once a host IP is left without rows, its file keeps the
\* content of its last write through every later request for as long as the
\* host IP has no row.
C16_RowlessHostFileKept ==
    [][\A h \in Hosts :
          (/\ ~HasRows(db, h)
           /\ ~HasRows(db', h)
           /\ fileName(h) \in DOMAIN files)
          => /\ fileName(h) \in DOMAIN files'
             /\ files'[fileName(h)] = files[fileName(h)]]_vars

----------------------------------------------------------------------------
Delay == TimerDelay(config.pollInterval)

\* Milliseconds since timer t was created
Elapsed(t) == clock - timers[t].since

RECURSIVE FiredUpTo(_)
FiredUpTo(n) == IF n = 0 THEN 0 ELSE FiredUpTo(n - 1) + timers[n].fired

\* C17: every call of startMonitoring starts exactly one scan at once, before
\* its timer has fired, and its timer then starts one further scan for each
\* pollInterval milliseconds elapsed, for as long as the timer has not been
\* cleared by stop(): the scans started are one per call plus one per
\* elapsed interval of each timer.
C17_OneScanAtOnceThenOnePerInterval ==
    /\ started = Len(timers) + FiredUpTo(Len(timers))
    /\ \A t \in 1..Len(timers) :
          IF timers[t].armed
          THEN \/ timers[t].fired = Elapsed(t) \div Delay
               \* the callback of this very millisecond has yet to run
               \/ /\ Elapsed(t) > 0
                  /\ Elapsed(t) % Delay = 0
                  /\ timers[t].fired = (Elapsed(t) \div Delay) - 1
          ELSE timers[t].fired <= Elapsed(t) \div Delay

\* One call of startMonitoring, two intervals elapsed, three scans started
C17_Witness ==
    /\ Len(timers) = 1
    /\ timers[1].armed
    /\ clock = timers[1].since + 2 * Delay
    /\ timers[1].fired = 2
    /\ started = 3

----------------------------------------------------------------------------
\* This step is the end of a scan whose listing or POST failed
ScanFails ==
    \/ /\ listing' = listing - 1
       /\ outcome'.stage = "list"
       /\ outcome'.err
    \/ /\ Len(posting') = Len(posting) - 1
       /\ outcome'.stage = "fetch"
       /\ (outcome'.err \/ outcome'.status < 200 \/ outcome'.status > 299)

\* This step is a run of the callback of timer t
Fires(t) == t <= Len(timers') /\ timers'[t].fired = timers[t].fired + 1

\* C18: a scan whose Docker listing fails, whose POST fails in the network
\* or whose POST is answered with a status outside 200-299 ends by logging
\* 'Failed to send payload:'; the process goes on, every timer stays armed
\* with its schedule unchanged, and every later run of a timer callback
\* starts a new scan whatever the earlier scans did.
C18_FailedScanLeavesLoopRunning ==
    [][/\ ScanFails =>
            /\ log' = FailedMessage
            /\ ~exited'
            /\ timers' = timers
            /\ intervalId' = intervalId
            /\ started' = started
       /\ \A t \in 1..Len(timers) :
            Fires(t) =>
                /\ listing' = listing + 1
                /\ started' = started + 1
                /\ timers'[t].armed
                /\ timers'[t].due = clock + Delay]_vars

\* A POST was answered 500 and logged, and the scan of a later tick is under
\* way
C18_Witness ==
    /\ outcome = [stage |-> "fetch", err |-> FALSE, status |-> 500]
    /\ log = FailedMessage
    /\ ~exited
    /\ \E t \in 1..Len(timers) : timers[t].armed /\ timers[t].fired > 0
    /\ listing > 0

----------------------------------------------------------------------------
HasLabel(container, label) == label \in DOMAIN container.Labels

LabelOf(container, label) == container.Labels[label]

IPv4Ports(container) == SelectSeq(container.Ports, isIPv4)

\* The built payload has one entry per listed container, with the subdomain
\* label as subdomain and a port told by PortIs
EntriesMatch(PortIs(_, _)) ==
    payload # NoPayload =>
        /\ Len(payload.services) = Len(docker)
        /\ \A k \in 1..Len(docker) :
              /\ payload.services[k].subdomain
                    = LabelOf(docker[k], SubdomainLabel)
              /\ PortIs(docker[k], payload.services[k].port)

\* The port label decides when it is present
PortByPresentLabel(container, port) ==
    IF HasLabel(container, SubdomainPortLabel)
    THEN port = Number(LabelOf(container, SubdomainPortLabel))
    ELSE /\ IPv4Ports(container) # <<>>
         /\ port = JInt(IPv4Ports(container)[1].PublicPort)

\* C19 as stated: every entry of a built batch has the subdomain label as
\* subdomain, and as port the numeric value of the port label when that label
\* is present, else the public port of the first published port bound to an
\* IPv4 address.
C19_PortFromLabelWhenPresent == EntriesMatch(PortByPresentLabel)

\* The port label decides when it is present with a non-empty value
PortByNonEmptyLabel(container, port) ==
    IF /\ HasLabel(container, SubdomainPortLabel)
       /\ LabelOf(container, SubdomainPortLabel) # <<>>
    THEN port = Number(LabelOf(container, SubdomainPortLabel))
    ELSE /\ IPv4Ports(container) # <<>>
         /\ port = JInt(IPv4Ports(container)[1].PublicPort)

\* C19 amended: every entry of a built batch has the subdomain label as
\* subdomain, and as port the numeric value of the port label when that label
\* is present with a non-empty value, else (label absent or empty) the public
\* port of the first published port bound to an IPv4 address, IPv6 bindings
\* being skipped.
C19_PortFromLabelWhenNonEmpty == EntriesMatch(PortByNonEmptyLabel)

\* A batch was built and posted for a container with an empty port label and
\* one published on IPv6 before IPv4
C19_Witness ==
    /\ docker = <<EmptyLabelled, Published>>
    /\ payload.services
         = <<[port |-> JInt(2), subdomain |-> SubWeb],
             [port |-> JInt(2), subdomain |-> SubWeb]>>
    /\ posting # <<>>

----------------------------------------------------------------------------
\* stop() was called after the last call of startMonitoring
Stopped == intervalId # 0 /\ ~timers[intervalId].armed

\* C20: stop() clears the timer and logs the stop message when monitoring was
\* started, and logs nothing when it was never started; from its return
\* until startMonitoring is called again no scan is started, whatever calls
\* of startMonitoring came before it.
C20_NoScanAfterStop ==
    [][/\ intervalId' = 0 => log' # StopMessage
       /\ (log' = StopMessage /\ ~exited /\ timers' # timers) => Stopped'
       /\ (Stopped /\ Stopped') => started' = started]_vars

----------------------------------------------------------------------------
\* Entry j of the batch names the subdomain of row
Names(r, j, row) == Entries(r)[j].f.subdomain = JStr(row.subdomain)

\* Entry j of the batch requests the very port the row stores
AsksStoredPort(r, j, rows) ==
    \E row \in RowsOf(rows) :
        Names(r, j, row) /\ Entries(r)[j].f.port = JInt(row.port)

\* C21: an upsert keeps every existing row in its place with its subdomain,
\* host_ip and created_at, whatever host_ip the request carries; port and
\* updated_at of a row change only when the batch names its subdomain with a
\* port other than the stored one; and a batch whose every entry asks for the
\* stored port of an existing row runs no statement at all.
C21_UpsertTouchesOnlyPortAndUpdatedAt ==
    ~dryRun =>
        \A r \in PostRequests :
            \A out \in {Outcome(r)} :
                /\ Len(out.db) >= Len(db)
                /\ \A i \in 1..Len(db) :
                      /\ out.db[i].subdomain = db[i].subdomain
                      /\ out.db[i].host_ip = db[i].host_ip
                      /\ out.db[i].created_at = db[i].created_at
                      /\ out.db[i] # db[i] =>
                            \E j \in 1..Len(Entries(r)) :
                                /\ Names(r, j, db[i])
                                /\ Entries(r)[j].f.port # JInt(db[i].port)
                /\ (\A j \in 1..Len(Entries(r)) : AsksStoredPort(r, j, db))
                   => (out.resp = Success /\ NoWrites(out) /\ out.db = db)

\* A POST has just changed the port of the only row, some time after the row
\* was created
C21_Witness ==
    /\ ~dryRun
    /\ route = [method |-> "POST", path |-> "/services"]
    /\ resp = Success
    /\ wrote
    /\ Len(db) = 1
    /\ db[1].updated_at > db[1].created_at

----------------------------------------------------------------------------
\* Regenerating the files from the rows now stored would change no file
Regenerated == writeHandlerFiles(FALSE, db, files) = files

\* The files left by the POST just served reflect rows other than the stored
\* ones
Stale ==
    /\ ~dryRun
    /\ route = [method |-> "POST", path |-> "/services"]
    /\ resp = Success
    /\ ~Regenerated

----------------------------------------------------------------------------
\* The rows after request a and then request b are served from the current
\* state
RowsAfterBoth(a, b) ==
    LET first == handle(handshakeKey, a, dryRun, db, files, clock)
    IN  handle(handshakeKey, b, dryRun, first.db, first.files, clock).db

Triples(rows) ==
    {<<rows[i].subdomain, rows[i].host_ip, rows[i].port>> :
        i \in 1..Len(rows)}

SubdomainsOf(r) == {Entries(r)[i].f.subdomain : i \in 1..Len(Entries(r))}

\* C23: two POST /services requests whose batches name disjoint subdomains
\* leave the same rows (subdomain, host_ip, port) in either order; and for a
\* subdomain named by both, the row afterwards is that of the request served
\* last: its host_ip and its port.
C23_DisjointCommuteElseLastWins ==
    ~dryRun =>
        \A a, b \in PostRequests :
            (~Raises(a) /\ ~Raises(b)) =>
                /\ SubdomainsOf(a) \cap SubdomainsOf(b) = {}
                   => Triples(RowsAfterBoth(a, b)) = Triples(RowsAfterBoth(b, a))
                /\ \A sub \in SubdomainsOf(a) \cap SubdomainsOf(b) :
                      \E row \in RowsOf(RowsAfterBoth(a, b)) :
                          /\ JStr(row.subdomain) = sub
                          /\ row.host_ip = HostOf(b)
                          /\ SamePort(LastPort(b, sub), row.port)

----------------------------------------------------------------------------
\* Scans that wait for Docker or for the server
InFlight == listing + Len(posting)

\* C24: scans are not mutually exclusive: a run of the interval callback
\* starts a scan also when earlier scans still wait for Docker or for the
\* server, so that two or more scans, and their POSTs, are in flight at the
\* same time.
C24_TimerStartsScanWhileOthersWait ==
    [][\A t \in 1..Len(timers) :
          (Fires(t) /\ InFlight > 0) =>
              /\ started' = started + 1
              /\ listing' = listing + 1
              /\ posting' = posting
              /\ InFlight' = InFlight + 1
              /\ InFlight' >= 2]_vars

\* With one timer, the POSTs of two scans wait for the server at one time
C24_Witness ==
    /\ Len(timers) = 1
    /\ timers[1].fired > 0
    /\ Len(posting) = 2
    /\ ~exited

----------------------------------------------------------------------------
SubdomainsIn(rows) == {rows[i].subdomain : i \in 1..Len(rows)}

\* C25: POST /services never removes a row: after every POST, whatever its
\* batch and its host_ip, every subdomain stored before is still stored; a
\* subdomain leaves the store only in a step that serves DELETE
\* /services/:subdomain.
C25_OnlyDeleteRemovesRows ==
    [][/\ route'.method = "POST" => SubdomainsIn(db) \subseteq SubdomainsIn(db')
       /\ ~(SubdomainsIn(db) \subseteq SubdomainsIn(db'))
          => (route'.method = "DELETE" /\ resp' = Success)]_vars

\* Two hosts have a row each and a POST has just been acknowledged without a
\* statement run
C25_Witness ==
    /\ ~dryRun
    /\ route = [method |-> "POST", path |-> "/services"]
    /\ resp = Success
    /\ ~wrote
    /\ Len(db) = 2
    /\ db[1].host_ip # db[2].host_ip

----------------------------------------------------------------------------
\* C26: two different host IPs that both have rows never share a handler
\* file: the file names derived from distinct host IPs present in the store
\* are distinct.
C26_DistinctHostsDistinctFiles ==
    \A a, b \in RowsOf(db) :
        a.host_ip # b.host_ip => fileName(a.host_ip) # fileName(b.host_ip)

----------------------------------------------------------------------------
\* File f holds a block for subdomain sub
HoldsBlock(f, sub) == \E i \in 1..Len(files[f]) : files[f][i].subdomain = sub

BlockSubdomains(f) == {files[f][i].subdomain : i \in 1..Len(files[f])}

\* The files of the host IPs that have rows
CurrentFiles == {fileName(row.host_ip) : row \in RowsOf(db)}

\* C27 as stated: in every reachable state in live mode, across all handler
\* files on disk, a subdomain has a rendered block in at most one file.
C27_OneFilePerSubdomain ==
    ~dryRun =>
        \A f, g \in DOMAIN files :
            BlockSubdomains(f) \cap BlockSubdomains(g) # {} => f = g

\* C27 amended: in every reachable state in live mode, across the handler
\* files of the host IPs that have rows, a subdomain has a rendered block in
\* at most one file, and every block there is for a stored subdomain; the
\* file of a host IP left without rows is not part of this: it keeps its
\* blocks.
C27_OneCurrentFilePerSubdomain ==
    ~dryRun =>
        /\ CurrentFiles \subseteq DOMAIN files
        /\ \A f, g \in CurrentFiles :
              BlockSubdomains(f) \cap BlockSubdomains(g) # {} => f = g
        /\ \A f \in CurrentFiles : BlockSubdomains(f) \subseteq SubdomainsIn(db)

\* A subdomain deleted from one host and registered by another has a block
\* in the file of its host and in the file left by the host without rows
C27_Witness ==
    /\ ~dryRun
    /\ Len(db) = 1
    /\ HoldsBlock(fileName(db[1].host_ip), db[1].subdomain)
    /\ \E f \in DOMAIN files \ CurrentFiles : HoldsBlock(f, db[1].subdomain)

----------------------------------------------------------------------------
\* C28: whatever key the application was created with, a request on an
\* endpoint that carries no X-Handshake-Key header (and whose body, if any,
\* parses) is answered 401 Unauthorized.
C28_NoHeaderNeverAuthorized ==
    (traced /\ OnEndpoint(req) /\ req.key = NoHeader
        /\ req.body.t # "malformed")
        => resp = Unauthorized

----------------------------------------------------------------------------
\* A listing has just returned containers of which one gives no port
ListedUnbuildable ==
    /\ listing' = listing - 1
    /\ ~outcome'.err
    /\ buildPayload(config, docker).err

\* C29: when a scan lists a container that has no port label and no
\* published port bound to an IPv4 address, the error is caught and logged:
\* the failure message is logged, the process keeps running and nothing of
\* that scan is posted.
C29_UnbuildableScanCaughtAndLogged ==
    [][ListedUnbuildable =>
          /\ log' = FailedMessage
          /\ exited' = exited
          /\ posting' = posting]_vars

----------------------------------------------------------------------------
\* The upsert of the accepted POST /services r fails in the current state
UpsertFails(r) ==
    Accepted(r) /\ processRequest(dryRun, db, r.body, clock).err

\* C30: when the upsert of a POST /services fails with a store error, the
\* request is not answered 200 {message:'Success'}, no handler file is
\* written or changed, and the rows are the rows before the request.
C30_FailedUpsertLeavesFilesAndRows ==
    ~dryRun =>
        \A r \in PostRequests :
            UpsertFails(r) =>
                \A out \in {Outcome(r)} :
                    /\ out.resp.status # 200
                    /\ out.resp # Success
                    /\ out.files = files
                    /\ out.db = db

\* A batch has just failed in the store while handler files of an earlier
\* batch are on disk
C30_Witness ==
    /\ ~dryRun
    /\ route = [method |-> "POST", path |-> "/services"]
    /\ resp = HtmlError(500)
    /\ Len(db) = 1
    /\ fileName(db[1].host_ip) \in DOMAIN files
    /\ \E r \in PostRequests : UpsertFails(r) /\ Len(Entries(r)) = 2

====
